---- MODULE Spec2Model ----
(***************************************************************************)
(* The weather station of src/main.rs: a subject (WeatherData) holding a   *)
(* HashMap from observer name to boxed observer, two observer kinds        *)
(* (WidgetCurrent, WidgetStatistic) and the rolling statistics of the      *)
(* latter.                                                                 *)
(*                                                                         *)
(* Three specifications share the operators below:                          *)
(*   Spec      the station's interface (register, remove, notify,          *)
(*             measurements_changed) over three observers built by the     *)
(*             source's constructors;                                      *)
(*   SpecView  one statistics widget still held by its creator and driven  *)
(*             by direct update / display calls, long enough for the       *)
(*             history to be stripped;                                     *)
(*   SpecE2E   the end-to-end scenario of the specification (a statistics  *)
(*             widget of capacity 3, temperatures 10, 20, 30, 40).         *)
(***************************************************************************)
EXTENDS Integers, Sequences, FiniteSets, TLC

VARIABLES
    gens,       \* WeatherData.temperature / humidity / pressure (DataGen each)
    observers,  \* WeatherData.observers: HashMap<String, Box<Observer>>
    widgets,    \* the observer objects, by identity
    held,       \* the observers still owned by their creator (not yet boxed away)
    removed,    \* the observers remove() was called for while they were in the map
    received,   \* per observer, the records its update() was called with, in order
    shown,      \* per observer, what its last display() printed
    panicked,   \* the process has aborted on a panic
    drawn,      \* the next() calls of the latest operation: generator and value, in order
    pc          \* main's locals: where it stands, the cycles done, the names returned

vars == <<gens, observers, widgets, held, removed, received, shown, panicked,
          drawn, pc>>

----------------------------------------------------------------------------
(* Bounds of the model *)

\* most update() calls the station makes in all
MaxDeliveries == 2
\* updates a directly driven statistics widget receives beyond its capacity
MaxExtra == 2
\* most update() calls one observer receives in the end-to-end scenario
E2EUpdates == 4
\* widest range of a generator driven on its own
MaxDelta == 3
\* largest number the random source yields to a generator driven on its own
MaxRaw == 4
\* the triples of random offsets a refresh of the station may draw, of the
\* 10 * 60 * 90 the uniform source can give
MaxTapes == 2

----------------------------------------------------------------------------
(* Values *)

I32_MAX == 2147483647
I32_MIN == -I32_MAX - 1

\* i32 addition: the wrapped result and whether it overflowed
i32_add(a, b) ==
    IF b > 0 /\ a > I32_MAX - b
    THEN [value |-> ((a - I32_MAX) + (b - I32_MAX)) - 2, overflow |-> TRUE]
    ELSE IF b < 0 /\ a < I32_MIN - b
    THEN [value |-> (a - I32_MIN) + (b - I32_MIN), overflow |-> TRUE]
    ELSE [value |-> a + b, overflow |-> FALSE]

WeatherRecord(t, h, p) == [temperature |-> t, humidity |-> h, pressure |-> p]

WeatherRecord_new == WeatherRecord(0, 0, 0)

\* what a call yields when it panics: the process aborts
Panic == [panic |-> TRUE]

----------------------------------------------------------------------------
(* mod data: DataGen *)

\* DataGen::new: Range::new(0, delta) panics unless 0 < delta
DataGen_new(base, delta) ==
    IF delta <= 0 THEN Panic ELSE [base |-> base, delta |-> delta]

\* mutant: the range is taken as closed, [0, delta]
ind_sample_closed(delta, raw) == raw % (delta + 1)

\* Range::ind_sample of Range::new(0, delta) on the thread's random source: `raw` is
\* the number the source yields for this draw, reduced to an offset of [0, delta)
ind_sample(delta, raw) == raw % delta

Some(v) == [some |-> TRUE, value |-> v]
None == [some |-> FALSE]

\* Iterator::next: Some(base + offset), never None; the i32 addition panics on
\* overflow when the build checks overflow and wraps when it does not
DataGen_next(g, raw, overflow_checks) ==
    LET value == i32_add(g.base, ind_sample(g.delta, raw))
    IN IF value.overflow /\ overflow_checks THEN Panic ELSE Some(value.value)

\* Option::unwrap: the item as it is when it is Some(value), a panic on None
unwrap(item) == IF item = None THEN Panic ELSE item

----------------------------------------------------------------------------
(* mod widget *)

\* an observer that printed nothing yet
NoOutput == [printed |-> FALSE]

WidgetCurrent_new(name) ==
    [kind |-> "WidgetCurrent", name |-> name, current |-> WeatherRecord_new,
     history_length |-> 0,
     history_temp |-> <<>>, history_humid |-> <<>>, history_press |-> <<>>]

history_length_default == 10

\* mutant: a widget that keeps one value only
WidgetStatistic_new_keeps_one(name) ==
    [kind |-> "WidgetStatistic", name |-> name, current |-> WeatherRecord_new,
     history_length |-> 1,
     history_temp |-> <<>>, history_humid |-> <<>>, history_press |-> <<>>]

WidgetStatistic_new(name) ==
    [kind |-> "WidgetStatistic", name |-> name, current |-> WeatherRecord_new,
     history_length |-> history_length_default,
     history_temp |-> <<>>, history_humid |-> <<>>, history_press |-> <<>>]

\* mutant: the newest value is taken off instead of the oldest
pop_front_takes_back(list) ==
    IF list = <<>> THEN list ELSE SubSeq(list, 1, Len(list) - 1)

\* LinkedList::pop_front
pop_front(list) == IF list = <<>> THEN list ELSE Tail(list)

\* LinkedList::push_back
push_back(list, v) == Append(list, v)

\* mutant: nothing is ever popped
strip_one_never(list, history_length) == list

\* one of strip_list's three tests, on one history
strip_one(list, history_length) ==
    IF Len(list) >= history_length THEN pop_front(list) ELSE list

\* mutant: only the temperature history is stripped
strip_list_temperature_only(w) ==
    [w EXCEPT !.history_temp = strip_one(w.history_temp, w.history_length)]

strip_list(w) ==
    [w EXCEPT !.history_temp = strip_one(w.history_temp, w.history_length),
              !.history_humid = strip_one(w.history_humid, w.history_length),
              !.history_press = strip_one(w.history_press, w.history_length)]

\* mutant: the test for a new minimum is inverted
RECURSIVE statistic_loop_min_inverted(_, _, _)
statistic_loop_min_inverted(list, i, acc) ==
    IF i > Len(list) THEN acc
    ELSE LET curr == list[i]
             s == i32_add(acc.sum, curr)
         IN statistic_loop_min_inverted(list, i + 1,
                [min |-> IF acc.min < curr THEN curr ELSE acc.min,
                 max |-> IF acc.max < curr THEN curr ELSE acc.max,
                 sum |-> s.value,
                 overflow |-> acc.overflow \/ s.overflow])

\* the loop of statistic over list[i..], with the accumulators so far
RECURSIVE statistic_loop(_, _, _)
statistic_loop(list, i, acc) ==
    IF i > Len(list) THEN acc
    ELSE LET curr == list[i]
             s == i32_add(acc.sum, curr)
         IN statistic_loop(list, i + 1,
                [min |-> IF acc.min > curr THEN curr ELSE acc.min,
                 max |-> IF acc.max < curr THEN curr ELSE acc.max,
                 sum |-> s.value,
                 overflow |-> acc.overflow \/ s.overflow])

\* statistic: (min, max, sum) of a list; unwrap() of front() panics on an empty
\* list, and sum += curr panics on overflow when the build checks overflow
statistic(list, overflow_checks) ==
    IF list = <<>> THEN Panic
    ELSE LET r == statistic_loop(list, 2,
                      [min |-> list[1], max |-> list[1], sum |-> list[1],
                       overflow |-> FALSE])
         IN IF r.overflow /\ overflow_checks THEN Panic
            ELSE [min |-> r.min, max |-> r.max, sum |-> r.sum]

\* one printed line "min / max / avg": avg is sum as f32 / len as f32, kept as the
\* pair of the dividend and the divisor
stat_line(st, len) == [min |-> st.min, max |-> st.max, avg |-> <<st.sum, len>>]

\* display of a WidgetCurrent: the four lines it prints; it cannot panic
WidgetCurrent_display(w) ==
    [out |-> [name |-> w.name,
              temperature |-> w.current.temperature,
              humidity |-> w.current.humidity,
              pressure |-> w.current.pressure],
     panic |-> FALSE]

\* display of a WidgetStatistic: it prints line by line, the name first and each
\* measurement's line after its statistic() call, so when a call panics the lines
\* before it are printed already
WidgetStatistic_display(w, overflow_checks) ==
    LET t == statistic(w.history_temp, overflow_checks)
        h == statistic(w.history_humid, overflow_checks)
        p == statistic(w.history_press, overflow_checks)
    IN IF t = Panic THEN [out |-> [name |-> w.name], panic |-> TRUE]
       ELSE IF h = Panic
       THEN [out |-> [name |-> w.name,
                      temperature |-> stat_line(t, Len(w.history_temp))],
             panic |-> TRUE]
       ELSE IF p = Panic
       THEN [out |-> [name |-> w.name,
                      temperature |-> stat_line(t, Len(w.history_temp)),
                      humidity |-> stat_line(h, Len(w.history_humid))],
             panic |-> TRUE]
       ELSE [out |-> [name |-> w.name,
                      temperature |-> stat_line(t, Len(w.history_temp)),
                      humidity |-> stat_line(h, Len(w.history_humid)),
                      pressure |-> stat_line(p, Len(w.history_humid))],
             panic |-> FALSE]

\* DisplayWidget::display, dispatched on the widget's type: the lines printed and
\* whether the call panicked
display(w, overflow_checks) ==
    IF w.kind = "WidgetCurrent" THEN WidgetCurrent_display(w)
    ELSE WidgetStatistic_display(w, overflow_checks)

\* mutant: only the temperature is taken over
WidgetCurrent_update_temperature_only(w, record) ==
    [w EXCEPT !.current.temperature = record.temperature]

WidgetCurrent_update(w, record) == [w EXCEPT !.current = record]

WidgetStatistic_update(w, record) ==
    strip_list([w EXCEPT
        !.history_temp = push_back(w.history_temp, record.temperature),
        !.history_humid = push_back(w.history_humid, record.humidity),
        !.history_press = push_back(w.history_press, record.pressure)])

\* Observer::update, dispatched on the widget's type: the widget after the
\* assignments, what the display() that ends update printed and whether it
\* panicked
Observer_update(w, record, overflow_checks) ==
    LET w2 == IF w.kind = "WidgetCurrent" THEN WidgetCurrent_update(w, record)
              ELSE WidgetStatistic_update(w, record)
        d == display(w2, overflow_checks)
    IN [widget |-> w2, out |-> d.out, panic |-> d.panic]

\* Observer::name
Observer_name(w) == w.name

----------------------------------------------------------------------------
(* mod weather: WeatherData *)

Range(f) == {f[k] : k \in DOMAIN f}

\* HashMap::insert and HashMap::remove on a map kept as a function of its keys
map_insert(m, k, v) == [x \in DOMAIN m \cup {k} |-> IF x = k THEN v ELSE m[x]]
map_remove(m, k) == [x \in DOMAIN m \ {k} |-> m[x]]

WeatherData_new ==
    [temperature |-> DataGen_new(10, 10),
     humidity |-> DataGen_new(40, 60),
     pressure |-> DataGen_new(700, 90),
     observers |-> [x \in {} |-> x]]

\* mutant: an entry already under the name is kept
register_keep_first(obs, l, w) ==
    LET name == Observer_name(w)
    IN [observers |-> IF name \in DOMAIN obs THEN obs ELSE map_insert(obs, name, l),
        ret |-> name]

\* mutant: the name returned is not the one the entry is under
register_returns_nothing(obs, l, w) ==
    [observers |-> map_insert(obs, Observer_name(w), l), ret |-> ""]

\* mutant: every observer is inserted under one and the same key
register_under_one_key(obs, l, w) ==
    [observers |-> map_insert(obs, "Widget", l), ret |-> Observer_name(w)]

\* register: the map after the insert, and the name returned
register(obs, l, w) ==
    LET name == Observer_name(w)
    IN [observers |-> map_insert(obs, name, l), ret |-> name]

\* mutant: nothing is removed
remove_nothing(obs, name) == obs

\* mutant: the whole map is cleared
remove_all(obs, name) == [x \in {} |-> x]

remove(obs, name) == map_remove(obs, name)

\* mutant: the pass visits every observer ever constructed, in the map or not
iter_mut_every_observer(obs) ==
    LET S == Range(obs) \cup {"c", "s", "d"}
        n == Cardinality(S)
    IN {o \in [1..n -> S] : \A i, j \in 1..n : o[i] = o[j] => i = j}

\* the orders in which HashMap::iter_mut may visit the entries
iter_mut(obs) ==
    LET S == Range(obs)
        n == Cardinality(S)
    IN {o \in [1..n -> S] : \A i, j \in 1..n : o[i] = o[j] => i = j}

\* the body of notify's loop, for the observers still to visit in `order`:
\* st holds the observers' state; a panic in update ends the process
RECURSIVE notify_loop(_, _, _, _)
notify_loop(order, st, record, overflow_checks) ==
    IF order = <<>> \/ st.panicked THEN st
    ELSE LET l == Head(order)
             u == Observer_update(st.widgets[l], record, overflow_checks)
         IN notify_loop(Tail(order),
                [widgets |-> [st.widgets EXCEPT ![l] = u.widget],
                 received |-> [st.received EXCEPT ![l] = Append(@, record)],
                 shown |-> [st.shown EXCEPT ![l] = u.out],
                 panicked |-> u.panic],
                record, overflow_checks)

\* mutant: the loop ends after the first observer
notify_first_only(order, st, record, overflow_checks) ==
    notify_loop(IF order = <<>> THEN order ELSE <<Head(order)>>, st, record,
                overflow_checks)

notify(order, st, record, overflow_checks) ==
    notify_loop(order, st, record, overflow_checks)

\* the getters: Panic, or Some(value) for the value returned
get_temperature(g, raw, overflow_checks) ==
    unwrap(DataGen_next(g.temperature, raw, overflow_checks))
get_humidity(g, raw, overflow_checks) ==
    unwrap(DataGen_next(g.humidity, raw, overflow_checks))
get_pressure(g, raw, overflow_checks) ==
    unwrap(DataGen_next(g.pressure, raw, overflow_checks))

\* one next() call: the generator called and the value it produced
Draw(k, value) == [gen |-> k, value |-> value]

\* mutant: the humidity is drawn before the temperature
measurements_humidity_first(g, draws, overflow_checks) ==
    LET h == get_humidity(g, draws[1], overflow_checks)
        t == get_temperature(g, draws[2], overflow_checks)
        p == get_pressure(g, draws[3], overflow_checks)
    IN IF h = Panic THEN [record |-> Panic, drawn |-> <<>>]
       ELSE IF t = Panic
       THEN [record |-> Panic, drawn |-> <<Draw("humidity", h.value)>>]
       ELSE IF p = Panic
       THEN [record |-> Panic,
             drawn |-> <<Draw("humidity", h.value), Draw("temperature", t.value)>>]
       ELSE [record |-> WeatherRecord(t.value, h.value, p.value),
             drawn |-> <<Draw("humidity", h.value), Draw("temperature", t.value),
                         Draw("pressure", p.value)>>]

\* the record measurements_changed builds when the random source yields
\* draws[1], draws[2], draws[3] in this order, and the next() calls that returned,
\* in order; a getter that panics ends the process before the next one is called
measurements(g, draws, overflow_checks) ==
    LET t == get_temperature(g, draws[1], overflow_checks)
        h == get_humidity(g, draws[2], overflow_checks)
        p == get_pressure(g, draws[3], overflow_checks)
    IN IF t = Panic THEN [record |-> Panic, drawn |-> <<>>]
       ELSE IF h = Panic
       THEN [record |-> Panic, drawn |-> <<Draw("temperature", t.value)>>]
       ELSE IF p = Panic
       THEN [record |-> Panic,
             drawn |-> <<Draw("temperature", t.value), Draw("humidity", h.value)>>]
       ELSE [record |-> WeatherRecord(t.value, h.value, p.value),
             drawn |-> <<Draw("temperature", t.value), Draw("humidity", h.value),
                         Draw("pressure", p.value)>>]

----------------------------------------------------------------------------
(* The observers and the inputs of the model *)

Listeners == {"c", "s", "d"}

\* the names remove() is called with: the two in use and one never registered
Ids == {"C", "S", "X"}

\* the random numbers of one refresh are three independent draws, each reduced
\* to an offset of its range, so 10 * 60 * 90 triples of offsets can come out;
\* TapeStride is coprime to their number, and Tape(1), Tape(2), ... go through
\* all of them: <<0, 0, 0>>, <<1, 31, 32>>, <<2, 2, 65>>, ...
TapeCount == 10 * 60 * 90
TapeStride == 19511
Tape(i) ==
    LET j == ((i - 1) * TapeStride) % TapeCount
    IN <<j % 10, (j \div 10) % 60, (j \div 600) % 90>>

\* what the random source may yield over the three draws of one refresh
RawDraws == {Tape(i) : i \in 1..MaxTapes}

\* records handed to notify() directly
NotifyRecords == {WeatherRecord(15, 50, 750)}

\* records handed to a directly driven statistics widget
ViewRecords == {WeatherRecord(10, 99, 700), WeatherRecord(19, 40, 789)}

\* the capacity and the records of the end-to-end scenario of the specification
E2ECapacity == 3
E2ERecords == {WeatherRecord(t, 40, 700) : t \in {10, 20, 30, 40}}

\* the number of cycles of main's loop
MainCycles == 10

\* main's locals while the station is driven from outside main, and as main starts
Outside == [at |-> "outside", cycle |-> 0, registred |-> <<>>]
MainStart == [at |-> "register_current", cycle |-> 0, registred |-> <<>>]

\* the generators driven on their own: their bases, ranges and random numbers
Generators == {"temperature", "humidity", "pressure"}
GenBases == {-3, 10, I32_MAX - 1}
GenDeltas == 0..MaxDelta
GenRaws == 0..MaxRaw

StatisticsView_new(name, capacity) ==
    [WidgetStatistic_new(name) EXCEPT !.history_length = capacity]

----------------------------------------------------------------------------
(* Initial states *)

InitCommon ==
    /\ gens = [k \in {"temperature", "humidity", "pressure"} |-> WeatherData_new[k]]
    /\ observers = WeatherData_new.observers
    /\ held = Listeners
    /\ removed = {}
    /\ received = [l \in Listeners |-> <<>>]
    /\ shown = [l \in Listeners |-> NoOutput]
    /\ panicked = FALSE
    /\ drawn = <<>>

\* main's two widgets under other names, and a third reusing a name
Init ==
    /\ InitCommon
    /\ pc = Outside
    /\ widgets = [l \in Listeners |->
                    IF l = "c" THEN WidgetCurrent_new("C")
                    ELSE IF l = "s" THEN WidgetStatistic_new("S")
                    ELSE WidgetCurrent_new("S")]

\* three generators of any base and range, and no observer registered
InitGen ==
    /\ \E base \in [Generators -> GenBases], delta \in [Generators -> GenDeltas] :
         gens = [k \in Generators |-> DataGen_new(base[k], delta[k])]
    /\ observers = WeatherData_new.observers
    /\ held = Listeners
    /\ removed = {}
    /\ received = [l \in Listeners |-> <<>>]
    /\ shown = [l \in Listeners |-> NoOutput]
    /\ panicked = (\E k \in Generators : gens[k] = Panic)
    /\ drawn = <<>>
    /\ pc = Outside
    /\ widgets = [l \in Listeners |->
                    IF l = "c" THEN WidgetCurrent_new("C")
                    ELSE IF l = "s" THEN WidgetStatistic_new("S")
                    ELSE WidgetCurrent_new("S")]

\* main before its first register: the station and the two widgets it constructs
InitMain ==
    /\ gens = [k \in {"temperature", "humidity", "pressure"} |-> WeatherData_new[k]]
    /\ observers = WeatherData_new.observers
    /\ widgets = [l \in Listeners |->
                    IF l = "s" THEN WidgetStatistic_new("Statistic Widget")
                    ELSE WidgetCurrent_new("Current Widget")]
    /\ held = {"c", "s"}
    /\ removed = {}
    /\ received = [l \in Listeners |-> <<>>]
    /\ shown = [l \in Listeners |-> NoOutput]
    /\ panicked = FALSE
    /\ drawn = <<>>
    /\ pc = MainStart

InitE2E ==
    /\ InitCommon
    /\ pc = Outside
    /\ widgets = [l \in Listeners |->
                    IF l = "c" THEN WidgetCurrent_new("C")
                    ELSE IF l = "s" THEN StatisticsView_new("S", E2ECapacity)
                    ELSE WidgetCurrent_new("S")]

----------------------------------------------------------------------------
(* Actions *)

state == [widgets |-> widgets, received |-> received, shown |-> shown,
          panicked |-> panicked]

SetState(st) ==
    /\ widgets' = st.widgets
    /\ received' = st.received
    /\ shown' = st.shown
    /\ panicked' = st.panicked

\* weather.register(Box::new(widget l)): the box moves into the map; an entry
\* it replaces is dropped
Register(l) ==
    /\ ~panicked
    /\ l \in held
    /\ observers' = register(observers, l, widgets[l]).observers
    /\ held' = held \ {l}
    /\ drawn' = <<>>
    /\ UNCHANGED <<gens, widgets, removed, received, shown, panicked>>

\* weather.remove(name)
Remove(name) ==
    /\ ~panicked
    /\ observers' = remove(observers, name)
    /\ removed' = removed \cup {observers[k] : k \in DOMAIN observers \cap {name}}
    /\ drawn' = <<>>
    /\ UNCHANGED <<gens, widgets, held, received, shown, panicked>>

\* the update() calls made so far
RECURSIVE Deliveries(_)
Deliveries(S) ==
    IF S = {} THEN 0
    ELSE LET l == CHOOSE x \in S : TRUE
         IN Len(received[l]) + Deliveries(S \ {l})

\* the pass of notify(record) over the map, while no observer in the map has had
\* `each` updates and the calls stay within `total`, in a build with or without
\* overflow checks
NotifyBuilt(record, each, total, overflow_checks) ==
    /\ ~panicked
    /\ \A l \in Range(observers) : Len(received[l]) < each
    /\ Deliveries(Listeners) + Cardinality(Range(observers)) <= total
    /\ \E order \in iter_mut(observers) :
         SetState(notify(order, state, record, overflow_checks))
    /\ UNCHANGED <<gens, observers, held, removed>>

\* the pass in a build that checks overflow or in one that does not
Notify(record, each, total) ==
    \E overflow_checks \in BOOLEAN : NotifyBuilt(record, each, total, overflow_checks)

\* weather.notify(record) called from outside the station
NotifyCall(record, each, total) ==
    /\ Notify(record, each, total)
    /\ drawn' = <<>>

\* weather.measurements_changed()
MeasurementsChanged(each, total) ==
    \E draws \in RawDraws, overflow_checks \in BOOLEAN :
      LET m == measurements(gens, draws, overflow_checks)
      IN /\ drawn' = m.drawn
         /\ IF m.record = Panic
            THEN /\ ~panicked
                 /\ panicked' = TRUE
                 /\ UNCHANGED <<gens, observers, widgets, held, removed, received,
                                shown>>
            ELSE NotifyBuilt(m.record, each, total, overflow_checks)

\* widget.update(&record) called by the widget's owner
Update(l, record) ==
    /\ ~panicked
    /\ l \in held
    /\ Len(received[l]) < widgets[l].history_length + MaxExtra
    /\ \E overflow_checks \in BOOLEAN :
         SetState(notify(<<l>>, state, record, overflow_checks))
    /\ drawn' = <<>>
    /\ UNCHANGED <<gens, observers, held, removed>>

\* widget.display() called by the widget's owner
Display(l) ==
    /\ ~panicked
    /\ l \in held
    /\ \E overflow_checks \in BOOLEAN :
         LET d == display(widgets[l], overflow_checks)
         IN /\ panicked' = d.panic
            /\ shown' = [shown EXCEPT ![l] = d.out]
    /\ drawn' = <<>>
    /\ UNCHANGED <<gens, observers, widgets, held, removed, received>>

\* generator.next() called on one generator: a panic aborts the process, None
\* would end the sequence
NextValue(k) ==
    /\ ~panicked
    /\ \E raw \in GenRaws, overflow_checks \in BOOLEAN :
         LET item == DataGen_next(gens[k], raw, overflow_checks)
         IN /\ panicked' = (item = Panic)
            /\ drawn' = IF item = Panic \/ item = None THEN <<>>
                        ELSE <<Draw(k, item.value)>>
    /\ UNCHANGED <<gens, observers, widgets, held, removed, received, shown>>

\* registred.push(weather.register(Box::new(widget))) at `here` of main
MainRegister(l, here, next) ==
    /\ pc.at = here
    /\ Register(l)
    /\ pc' = [pc EXCEPT !.at = next,
                        !.registred =
                            Append(@, register(observers, l, widgets[l]).ret)]

\* one cycle of main's loop
MainLoop ==
    /\ pc.at = "loop"
    /\ pc.cycle < MainCycles
    /\ MeasurementsChanged(MainCycles, 2 * MainCycles)
    /\ pc' = [pc EXCEPT !.cycle = @ + 1]

\* the loop is over and main returns
MainExit ==
    /\ pc.at = "loop"
    /\ pc.cycle = MainCycles
    /\ ~panicked
    /\ pc' = [pc EXCEPT !.at = "exit"]
    /\ UNCHANGED <<gens, observers, widgets, held, removed, received, shown,
                   panicked, drawn>>

----------------------------------------------------------------------------
(* Specifications *)

Next ==
    \/ (\E l \in Listeners : Register(l)) /\ UNCHANGED pc
    \/ (\E name \in Ids : Remove(name)) /\ UNCHANGED pc
    \/ (\E record \in NotifyRecords :
          NotifyCall(record, MaxDeliveries, MaxDeliveries)) /\ UNCHANGED pc
    \/ MeasurementsChanged(MaxDeliveries, MaxDeliveries) /\ UNCHANGED pc

Spec == Init /\ [][Next]_vars

NextView ==
    \/ (\E record \in ViewRecords : Update("s", record)) /\ UNCHANGED pc
    \/ Display("s") /\ UNCHANGED pc

SpecView == Init /\ [][NextView]_vars

NextE2E ==
    \/ (\E l \in {"c", "s"} : Register(l)) /\ UNCHANGED pc
    \/ (\E record \in E2ERecords :
          NotifyCall(record, E2EUpdates, 2 * E2EUpdates)) /\ UNCHANGED pc

SpecE2E == InitE2E /\ [][NextE2E]_vars

NextMain ==
    \/ MainRegister("c", "register_current", "register_statistic")
    \/ MainRegister("s", "register_statistic", "loop")
    \/ MainLoop
    \/ MainExit

SpecMain == InitMain /\ [][NextMain]_vars

NextGen == \E k \in Generators : NextValue(k) /\ UNCHANGED pc

SpecGen == InitGen /\ [][NextGen]_vars

----------------------------------------------------------------------------
(* Properties *)

\* the records the station's observers are notified with in Spec
StationRecords ==
    NotifyRecords \cup {measurements(gens, draws, FALSE).record : draws \in RawDraws}

Registered == Range(observers)

\* l was boxed into the station and is in the map no more: removed or replaced
Dropped(l) == l \notin held /\ l \notin Registered

\* the same of the state a step leads to
DroppedNext(l) == l \notin held' /\ l \notin Range(observers')

\* C1: one notify(r) calls update exactly once, with r, on every observer that is
\* in the map when the call is made, and on no other observer.
C1_NotifyUpdatesEachRegisteredOnce ==
    [][\A r \in StationRecords :
         Notify(r, MaxDeliveries, MaxDeliveries) =>
           \A l \in Listeners :
             IF l \in Registered
             THEN /\ received'[l] = Append(received[l], r)
                  /\ widgets'[l] = Observer_update(widgets[l], r, FALSE).widget
             ELSE /\ received'[l] = received[l]
                  /\ widgets'[l] = widgets[l]]_vars

\* both c and s have been notified together while d, never registered, got nothing
C1_Witness ==
    /\ observers = [n \in {"C", "S"} |-> IF n = "C" THEN "c" ELSE "s"]
    /\ Len(received["c"]) = 1
    /\ received["s"] = received["c"]
    /\ "d" \in held /\ received["d"] = <<>>

\* C2: once remove(id) was called for an observer in the map, that observer is out
\* of the map and no later notify reaches it (its updates never grow again), while
\* every observer in the map that was not removed receives each later notification.
C2_RemovedReceivesNoMore ==
    [][/\ \A l \in removed :
            /\ l \notin Registered
            /\ received'[l] = received[l]
            /\ widgets'[l] = widgets[l]
       /\ \A r \in StationRecords :
            Notify(r, MaxDeliveries, MaxDeliveries) =>
              \A l \in Registered \ removed :
                Len(received'[l]) = Len(received[l]) + 1]_vars

\* s was removed after one update and c, under another name, was notified
\* afterwards with another record
C2_Witness ==
    /\ "s" \in removed
    /\ Len(received["s"]) = 1
    /\ "c" \in Registered
    /\ Len(received["c"]) = 1
    /\ received["c"] # received["s"]

\* C3: registering an observer under a name that is already in the map leaves one
\* entry for the name, bound to the observer registered second; the first is out of
\* the map and only the second is updated by the notifications that follow.
C3_SecondRegistrationWins ==
    [][/\ \A l \in Listeners :
            LET name == Observer_name(widgets[l])
            IN (Register(l) /\ name \in DOMAIN observers) =>
                 /\ observers'[name] = l
                 /\ DroppedNext(observers[name])
                 /\ DOMAIN observers' = DOMAIN observers
       /\ \A l, m \in Listeners, r \in StationRecords :
            (/\ l # m
             /\ Observer_name(widgets[l]) = Observer_name(widgets[m])
             /\ l \in Registered
             /\ Notify(r, MaxDeliveries, MaxDeliveries)) =>
                 /\ received'[l] = Append(received[l], r)
                 /\ received'[m] = received[m]]_vars

\* d was registered under the name of s after s had one update, and was then
\* updated alone
C3_Witness ==
    /\ "S" \in DOMAIN observers /\ observers["S"] = "d"
    /\ Dropped("s")
    /\ Len(received["s"]) = 1
    /\ Len(received["d"]) = 1
    /\ received["d"] # received["s"]

\* C8: a WidgetCurrent holds the zero record until its first update and afterwards
\* holds, field for field, the record of the latest notification delivered to it.
C8_CurrentHoldsLatestRecord ==
    \A l \in Listeners :
      widgets[l].kind = "WidgetCurrent" =>
        widgets[l].current =
          IF received[l] = <<>> THEN WeatherRecord(0, 0, 0)
          ELSE received[l][Len(received[l])]

\* c was updated twice with records that differ in every field
C8_Witness ==
    /\ Len(received["c"]) = 2
    /\ received["c"][1].temperature # received["c"][2].temperature
    /\ received["c"][1].humidity # received["c"][2].humidity
    /\ received["c"][1].pressure # received["c"][2].pressure
    /\ widgets["c"].current = received["c"][2]

\* C9: remove(id) with an id that is not in the map changes nothing and does not
\* fail; remove(id) with an id in the map deletes that entry and leaves every other
\* entry, and every observer's state, as it was.
C9_RemoveFrame ==
    [][\A name \in Ids :
         Remove(name) =>
           /\ DOMAIN observers' = DOMAIN observers \ {name}
           /\ \A k \in DOMAIN observers' : observers'[k] = observers[k]
           /\ UNCHANGED <<gens, widgets, held, received, shown, panicked>>
           /\ name \notin DOMAIN observers =>
                UNCHANGED <<gens, observers, widgets, held, removed, received,
                            shown, panicked>>]_vars

\* s was removed by name while c, updated before, stays in the map
C9_Witness ==
    /\ "s" \in removed /\ "d" \in held
    /\ DOMAIN observers = {"C"} /\ observers["C"] = "c"
    /\ received["c"] # <<>>
    /\ received["s"] = received["c"]

Min(a, b) == IF a < b THEN a ELSE b

\* the last n elements of a sequence
LastN(seq, n) == SubSeq(seq, Len(seq) - n + 1, Len(seq))

Temperatures(log) == [i \in 1..Len(log) |-> log[i].temperature]
Humidities(log) == [i \in 1..Len(log) |-> log[i].humidity]
Pressures(log) == [i \in 1..Len(log) |-> log[i].pressure]

Statistics == {l \in Listeners : widgets[l].kind = "WidgetStatistic"}

\* C4: after M >= 1 updates of a statistics widget of capacity N, each history
\* holds exactly the latest min(M, N) values delivered for its measurement, oldest
\* first.
C4_HistoryHoldsLatestMinMN ==
    \A l \in Statistics :
      LET M == Len(received[l])
          k == Min(M, widgets[l].history_length)
      IN M >= 1 =>
           /\ widgets[l].history_temp = LastN(Temperatures(received[l]), k)
           /\ widgets[l].history_humid = LastN(Humidities(received[l]), k)
           /\ widgets[l].history_press = LastN(Pressures(received[l]), k)

\* C5: in every state each history of a statistics widget is at most
\* history_length long.
C5_HistoryWithinCapacity ==
    \A l \in Statistics :
      /\ Len(widgets[l].history_temp) <= widgets[l].history_length
      /\ Len(widgets[l].history_humid) <= widgets[l].history_length
      /\ Len(widgets[l].history_press) <= widgets[l].history_length

\* s has had more updates than its capacity, so values were popped from its histories
C5_Witness ==
    /\ Len(received["s"]) > widgets["s"].history_length
    /\ widgets["s"].history_temp # <<>>
    /\ widgets["s"].history_temp[1] = received["s"][3].temperature

RECURSIVE SeqSum(_)
SeqSum(seq) == IF seq = <<>> THEN 0 ELSE Head(seq) + SeqSum(Tail(seq))

Elements(seq) == {seq[i] : i \in 1..Len(seq)}

\* a display() of a statistics widget printed all of its lines
PrintedAll(out) == DOMAIN out = {"name", "temperature", "humidity", "pressure"}

\* a printed line is right for the history it was computed from
LineIsRight(line, list) ==
    /\ line.min \in Elements(list) /\ \A e \in Elements(list) : line.min <= e
    /\ line.max \in Elements(list) /\ \A e \in Elements(list) : e <= line.max
    /\ line.avg = <<SeqSum(list), Len(list)>>

\* C6: for a non-empty history of length L, statistic returns a minimum that is an
\* element and at most every element, a maximum that is an element and at least every
\* element, and the arithmetic sum of the L elements; the average printed for each
\* measurement is that sum over L.
C6_StatisticsAreRight ==
    \A l \in Statistics :
      received[l] # <<>> =>
        /\ PrintedAll(shown[l])
        /\ LineIsRight(shown[l].temperature, widgets[l].history_temp)
        /\ LineIsRight(shown[l].humidity, widgets[l].history_humid)
        /\ LineIsRight(shown[l].pressure, widgets[l].history_press)
        /\ \A b \in BOOLEAN :
             statistic(widgets[l].history_temp, b).sum = SeqSum(widgets[l].history_temp)

\* s printed the statistics of a full window in which the smallest value is neither
\* the first nor the last
C6_Witness ==
    /\ Len(received["s"]) > widgets["s"].history_length
    /\ PrintedAll(shown["s"])
    /\ shown["s"].temperature.min < widgets["s"].history_temp[1]
    /\ shown["s"].temperature.min <
         widgets["s"].history_temp[Len(widgets["s"].history_temp)]
    /\ shown["s"].temperature.min < shown["s"].temperature.max

\* C7: a WidgetCurrent c and a statistics widget s of capacity 3, both registered,
\* are notified of temperatures 10, 20, 30, 40 (humidity and pressure constant):
\* then c holds temperature 40 and s holds the temperatures <<20, 30, 40>> and
\* prints minimum 20, maximum 40, average 90 / 3.
C7_EndToEnd ==
    (/\ Temperatures(received["s"]) = <<10, 20, 30, 40>>
     /\ received["c"] = received["s"]) =>
        /\ widgets["c"].current.temperature = 40
        /\ widgets["s"].history_temp = <<20, 30, 40>>
        /\ shown["s"].temperature = [min |-> 20, max |-> 40, avg |-> <<90, 3>>]

\* C10: display() of a statistics widget that never had an update does not abort
\* the process.
C10_DisplayBeforeUpdateIsNoAbort ==
    \A l \in Statistics : received[l] = <<>> => ~panicked

----------------------------------------------------------------------------
(* Generators *)

\* a range [base, base + delta) whose highest value base + delta - 1 is still
\* an i32, so that the addition of main.rs:35 cannot overflow
RangeFitsI32(g) == g.base <= I32_MAX - g.delta + 1

\* C11: for a generator built with (base, delta), delta >= 1, whose range ends
\* at or below i32::MAX (base + delta - 1 <= 2147483647), every next() call
\* yields a value, never the end of the sequence and never a panic, and the
\* value v is an integer with base <= v < base + delta, whatever the random
\* source draws, however the program was built and however many calls came
\* before.
C11_NextWithinRangeThatFits ==
    [][\A k \in Generators :
         (NextValue(k) /\ RangeFitsI32(gens[k])) =>
           /\ gens[k].delta >= 1
           /\ ~panicked'
           /\ Len(drawn') = 1
           /\ drawn'[1].gen = k
           /\ drawn'[1].value \in Int
           /\ gens[k].base <= drawn'[1].value
           /\ drawn'[1].value - gens[k].base < gens[k].delta]_vars

\* C11 as first stated, for every generator with delta >= 1 whatever its base:
\* every next() call yields a value v with base <= v < base + delta.  With a
\* base next to i32::MAX the sum of main.rs:35 overflows: the call panics in a
\* build with overflow checks and yields a value below base in one without.
C11_NextWithinRange ==
    [][\A k \in Generators :
         NextValue(k) =>
           /\ gens[k].delta >= 1
           /\ ~panicked'
           /\ Len(drawn') = 1
           /\ drawn'[1].gen = k
           /\ drawn'[1].value \in Int
           /\ gens[k].base <= drawn'[1].value
           /\ drawn'[1].value - gens[k].base < gens[k].delta]_vars

\* a call has produced i32::MAX itself, the highest value of a range of two
\* values that just fits, next to a generator with a range of one value only
\* and one whose range of MaxDelta values does not fit
C11_Witness ==
    /\ ~panicked
    /\ gens["temperature"] = [base |-> I32_MAX - 1, delta |-> 2]
    /\ gens["humidity"].delta = 1
    /\ gens["pressure"] = [base |-> I32_MAX - 1, delta |-> MaxDelta]
    /\ drawn = <<Draw("temperature", I32_MAX)>>

----------------------------------------------------------------------------
(* The statistics widget's histories, update by update *)

\* C12: whatever updates a statistics widget has received, its three histories
\* have the same length, so the humidity history's length, by which the printed
\* pressure average is divided, is the length of the pressure history.
C12_HistoriesSameLength ==
    LET w == widgets["s"]
    IN /\ Len(w.history_temp) = Len(w.history_humid)
       /\ Len(w.history_humid) = Len(w.history_press)
       /\ PrintedAll(shown["s"]) =>
            shown["s"].pressure.avg[2] = Len(w.history_press)

\* more updates than the capacity, so each history was stripped, and a printed
\* pressure line
C12_Witness ==
    /\ Len(received["s"]) > widgets["s"].history_length
    /\ Len(widgets["s"].history_press) = widgets["s"].history_length - 1
    /\ PrintedAll(shown["s"])
    /\ shown["s"].pressure.avg[2] = widgets["s"].history_length - 1

\* h is a contiguous suffix of log
IsSuffix(h, log) == Len(h) <= Len(log) /\ h = LastN(log, Len(h))

\* what one update makes of a history h of capacity n when v is delivered
AppendThenStrip(h, v, n) ==
    LET appended == Append(h, v)
    IN IF Len(appended) >= n THEN Tail(appended) ELSE appended

\* C13: each update appends exactly one value at the back of each history and
\* then takes at most one value off each history, always the oldest one, exactly
\* when the history's length after the append has reached the capacity; each
\* history kept is a contiguous suffix of the values delivered, in their order.
C13_AppendThenStripOldest ==
    [][\A r \in ViewRecords :
         Update("s", r) =>
           LET w == widgets["s"]
               n == w.history_length
               after == widgets'["s"]
               log == received'["s"]
           IN /\ after.history_temp = AppendThenStrip(w.history_temp, r.temperature, n)
              /\ after.history_humid = AppendThenStrip(w.history_humid, r.humidity, n)
              /\ after.history_press = AppendThenStrip(w.history_press, r.pressure, n)
              /\ IsSuffix(after.history_temp, Temperatures(log))
              /\ IsSuffix(after.history_humid, Humidities(log))
              /\ IsSuffix(after.history_press, Pressures(log))]_vars

\* an update has taken the oldest value off a history that held two different
\* values at its ends, and a later one has appended without that
C13_Witness ==
    LET w == widgets["s"]
        log == received["s"]
    IN /\ Len(log) = w.history_length + 1
       /\ Len(w.history_temp) = w.history_length - 1
       /\ log[1].temperature # log[2].temperature
       /\ log[Len(log)].temperature # log[Len(log) - 1].temperature
       /\ w.history_temp = LastN(Temperatures(log), w.history_length - 1)

----------------------------------------------------------------------------
(* The station's refresh and its generators *)

\* C14: each measurements_changed() draws exactly one value from each generator,
\* the temperature first, then the humidity, then the pressure, and runs exactly
\* one notify pass, with the record built from exactly these three values; a
\* register, a remove or a notify call draws from no generator.
C14_RefreshDrawsThenNotifies ==
    [][/\ MeasurementsChanged(MaxDeliveries, MaxDeliveries) =>
            /\ Len(drawn') = 3
            /\ drawn'[1].gen = "temperature"
            /\ drawn'[2].gen = "humidity"
            /\ drawn'[3].gen = "pressure"
            /\ LET record == WeatherRecord(drawn'[1].value, drawn'[2].value,
                                           drawn'[3].value)
               IN /\ Notify(record, MaxDeliveries, MaxDeliveries)
                  /\ \A l \in Registered :
                       received'[l] = Append(received[l], record)
       /\ (\/ \E l \in Listeners : Register(l)
           \/ \E name \in Ids : Remove(name)
           \/ \E r \in NotifyRecords :
                NotifyCall(r, MaxDeliveries, MaxDeliveries)) =>
            drawn' = <<>> /\ UNCHANGED gens]_vars

\* a refresh has drawn three different offsets, 1, 31 and 32, and the two
\* observers in the map were notified with the record of these draws
C14_Witness ==
    /\ drawn = <<Draw("temperature", 11), Draw("humidity", 71),
                 Draw("pressure", 732)>>
    /\ Registered = {"c", "s"}
    /\ \A l \in Registered :
         /\ received[l] # <<>>
         /\ received[l][Len(received[l])] = WeatherRecord(11, 71, 732)

----------------------------------------------------------------------------
(* register and remove *)

\* C15: register(observer) returns exactly the name the observer declares; after
\* it the map has this observer under that name and every entry under another
\* name as before; remove of the returned name then leaves no entry under it, and
\* when the name was not in the map before the register, register followed by
\* remove gives back the map as it was.
C15_RegisterReturnsNameRemoveUndoes ==
    [][\A l \in Listeners :
         Register(l) =>
           LET r == register(observers, l, widgets[l])
               undone == remove(observers', r.ret)
           IN /\ r.ret = Observer_name(widgets[l])
              /\ DOMAIN observers' = DOMAIN observers \cup {r.ret}
              /\ observers'[r.ret] = l
              /\ \A k \in DOMAIN observers \ {r.ret} : observers'[k] = observers[k]
              /\ r.ret \notin DOMAIN undone
              /\ \A k \in DOMAIN observers \ {r.ret} :
                   k \in DOMAIN undone /\ undone[k] = observers[k]
              /\ r.ret \notin DOMAIN observers => undone = observers]_vars

\* the statistics widget was registered under a name not in the map and removed
\* under it, and the map is again the one with the current widget alone
C15_Witness ==
    /\ observers = [n \in {"C"} |-> "c"]
    /\ removed = {"s"}
    /\ "d" \in held

----------------------------------------------------------------------------
(* No abort in update *)

\* C16: in every update of a statistics widget built by WidgetStatistic::new, with
\* history_length = 10, each of the three histories is non-empty when the
\* statistics are computed, so the update prints its lines and does not abort on
\* the front of an empty history, however many updates came before.
C16_UpdateNeverFindsEmptyHistory ==
    [][\A r \in ViewRecords :
         Update("s", r) =>
           LET after == widgets'["s"]
           IN /\ after.history_temp # <<>>
              /\ after.history_humid # <<>>
              /\ after.history_press # <<>>
              /\ ~panicked'
              /\ shown'["s"] = display(after, TRUE).out
              /\ PrintedAll(shown'["s"])]_vars

\* the widget has had more updates than its capacity, each history was stripped
\* and still holds values, and nothing aborted
C16_Witness ==
    /\ widgets["s"].history_length = history_length_default
    /\ Len(received["s"]) = history_length_default + MaxExtra
    /\ Len(widgets["s"].history_temp) = history_length_default - 1
    /\ ~panicked
    /\ PrintedAll(shown["s"])

----------------------------------------------------------------------------
(* What notify and measurements_changed leave alone *)

\* C17: a notify pass, called directly or by measurements_changed, leaves the
\* observers map as it is, keys and the observer under each key; the map changes
\* in a register or a remove step only; and the update of one observer changes no
\* other observer: an observer out of the map keeps its state, one in the map
\* ends in the state its own update makes of its own state before.
C17_NotifyLeavesMapAndOthers ==
    [][/\ \A r \in StationRecords :
            Notify(r, MaxDeliveries, MaxDeliveries) =>
              /\ DOMAIN observers' = DOMAIN observers
              /\ \A k \in DOMAIN observers : observers'[k] = observers[k]
              /\ held' = held /\ removed' = removed
              /\ \A l \in Listeners \ Registered :
                   /\ widgets'[l] = widgets[l]
                   /\ shown'[l] = shown[l]
                   /\ received'[l] = received[l]
              /\ \A l \in Registered :
                   LET u == Observer_update(widgets[l], r, FALSE)
                   IN widgets'[l] = u.widget /\ shown'[l] = u.out
       /\ observers' # observers =>
            \/ \E l \in Listeners : Register(l)
            \/ \E name \in Ids : Remove(name)]_vars

\* the map holds c and s after a pass of a refresh that reached both, while d,
\* never registered, is as it was constructed
C17_Witness ==
    /\ observers = [n \in {"C", "S"} |-> IF n = "C" THEN "c" ELSE "s"]
    /\ Len(drawn) = 3
    /\ Len(received["c"]) = 1
    /\ Len(received["s"]) = 1
    /\ "d" \in held
    /\ widgets["d"] = WidgetCurrent_new("S")
    /\ shown["d"] = NoOutput

----------------------------------------------------------------------------
(* main *)

\* the steps main has taken when its locals are p
MainSteps(p) ==
    IF p.at = "register_current" THEN 0
    ELSE IF p.at = "register_statistic" THEN 1
    ELSE IF p.at = "loop" THEN 2 + p.cycle
    ELSE 3 + p.cycle

\* C18: main registers one WidgetCurrent and one WidgetStatistic under two
\* different names, runs exactly 10 measurements_changed() cycles and then
\* returns: it never aborts, each of its steps takes it one step further, and it
\* is past its loop after 10 cycles only; when it returns each of the two widgets
\* has received exactly 10 updates, and both are still in the map, none removed,
\* none replaced.
C18_MainRunsTenCyclesAndReturns ==
    /\ [](pc.at = "exit" =>
            /\ pc.cycle = 10
            /\ Len(pc.registred) = 2
            /\ pc.registred[1] # pc.registred[2]
            /\ DOMAIN observers = {pc.registred[1], pc.registred[2]}
            /\ observers[pc.registred[1]] = "c"
            /\ observers[pc.registred[2]] = "s"
            /\ widgets["c"].kind = "WidgetCurrent"
            /\ widgets["s"].kind = "WidgetStatistic"
            /\ Len(received["c"]) = 10
            /\ Len(received["s"]) = 10
            /\ removed = {})
    /\ [](/\ ~panicked
          /\ pc.cycle <= 10
          /\ pc.at = "loop" => \A l \in {"c", "s"} : Len(received[l]) = pc.cycle)
    /\ [][MainSteps(pc') = MainSteps(pc) + 1]_vars

\* main has returned after its cycles, the first of which drew the lowest
\* temperature and the last one another
C18_Witness ==
    /\ pc.at = "exit"
    /\ pc.registred = <<"Current Widget", "Statistic Widget">>
    /\ Len(received["s"]) = MainCycles
    /\ received["c"] = received["s"]
    /\ received["c"][1].temperature = 10
    /\ widgets["c"].current.temperature = 11

====
